---- MODULE Spec2Model ----
(***************************************************************************)
(* Memory disposal management system (src/app.py): the items table with    *)
(* its status state machine, the audit_log table, and the request handlers *)
(* add_item, delete_item, select_method, apply_recommendation, auto_plan,  *)
(* approve, reject, reset_item and execute_disposal.                       *)
(*                                                                         *)
(* Strings that the code inspects character by character (names, notes)    *)
(* are sequences of one-character strings.  The audit actions are written  *)
(* in ASCII: "add" is the code's "追加", "delete" "削除", "select_method"  *)
(* "方法選択", "apply_recommendation" "推奨適用", "bulk_apply" "一括適用", *)
(* "approve" "承認", "reject" "却下", "reset" "リセット", "execute"        *)
(* "廃棄実行".                                                             *)
(***************************************************************************)
EXTENDS Integers, Sequences, FiniteSets, TLC

VARIABLES
    items,      \* table items: item id -> row
    audit_log,  \* table audit_log: sequence of rows, in insertion order
    seq,        \* AUTOINCREMENT counter of items (largest id ever assigned)
    last,       \* outcome of the last request: the handler and what it flashed
                \* (ConcSpec: of the request of each thread; PureSpec: what
                \* the call returned)
    req,        \* the request being served statement by statement (TxSpec;
                \* ConcSpec: by each thread, with the thread's position;
                \* PureSpec: the call of the pure function)
    conn,       \* the database as the open connection sees it (TxSpec;
                \* ConcSpec: as the SELECT of each thread saw it)
    todo        \* statements of that request not yet executed (TxSpec;
                \* ConcSpec: of each thread)

vars == <<items, audit_log, seq, last, req, conn, todo>>

\* SQL NULL / Python None in a text column or form field
NULL == "NULL"
\* NULL in audit_log.item_id (ids of items start at 1) and in
\* audit_log.item_name (names are sequences of characters)
NoId == 0
NoName == <<NULL>>

\* ---------------------------------------------------------------- bounds
\* largest number of items ever added
MaxItems == 2
\* largest number of audit_log rows
MaxLog == 4
\* the quantities 1..MaxQuantitySample are tried one by one
MaxQuantitySample == 510
\* the life of one item: the items ever added and the audit_log rows
MaxLifeItems == 1
MaxLifeLog == 6

\* ------------------------------------------------------------- constants
MAX_NAME_LENGTH == 200
MAX_QUANTITY == 1000000
MAX_FACILITY_AGE == 100
MAX_NOTE_LENGTH == 500

\* the catalog with the risk score of physical destruction raised to 3
DISPOSAL_METHODS_physical_risk_three ==
    [ physical |->
        [label |-> "butsuri-hakai", cost_per_unit |-> 100, env_score |-> 3,
         risk_score |-> 3, benefit_per_unit |-> 30],
      recycle |->
        [label |-> "recycle", cost_per_unit |-> 60, env_score |-> 1,
         risk_score |-> 1, benefit_per_unit |-> 90],
      production_cut |->
        [label |-> "seisan-sakugen", cost_per_unit |-> 20, env_score |-> 1,
         risk_score |-> 2, benefit_per_unit |-> 140],
      aid |->
        [label |-> "enjo-tenyou", cost_per_unit |-> 130, env_score |-> 1,
         risk_score |-> 2, benefit_per_unit |-> 70] ]

DISPOSAL_METHODS ==
    [ physical |->
        [label |-> "butsuri-hakai", cost_per_unit |-> 100, env_score |-> 3,
         risk_score |-> 2, benefit_per_unit |-> 30],
      recycle |->
        [label |-> "recycle", cost_per_unit |-> 60, env_score |-> 1,
         risk_score |-> 1, benefit_per_unit |-> 90],
      production_cut |->
        [label |-> "seisan-sakugen", cost_per_unit |-> 20, env_score |-> 1,
         risk_score |-> 2, benefit_per_unit |-> 140],
      aid |->
        [label |-> "enjo-tenyou", cost_per_unit |-> 130, env_score |-> 1,
         risk_score |-> 2, benefit_per_unit |-> 70] ]

\* --------------------------------------------------------------- strings
\* n copies of the character c
Rep(n, c) == [i \in 1..n |-> c]

Whitespace == {" ", "\t", "\n"}

\* index of the first character of s at or after i that is no whitespace
\* (Len(s) + 1 when there is none)
RECURSIVE FirstText(_, _)
FirstText(s, i) ==
    IF i <= Len(s) /\ s[i] \in Whitespace THEN FirstText(s, i + 1) ELSE i

\* index of the last character of s at or before i that is no whitespace
\* (0 when there is none)
RECURSIVE LastText(_, _)
LastText(s, i) ==
    IF i >= 1 /\ s[i] \in Whitespace THEN LastText(s, i - 1) ELSE i

\* str.strip(): without the leading and the trailing whitespace
Strip(s) == SubSeq(s, FirstText(s, 1), LastText(s, Len(s)))

\* A numeric form field is the text the browser sent: [int |-> TRUE, val |-> n]
\* is the decimal text of the integer n, [int |-> FALSE, val |-> 0] is text
\* that int() refuses with ValueError.
IntText(n) == [int |-> TRUE, val |-> n]
NotIntText == [int |-> FALSE, val |-> 0]

Min(a, b) == IF a < b THEN a ELSE b
Max(a, b) == IF a > b THEN a ELSE b

\* ------------------------------------------------------- pure functions
\* recommend_method asking for the quantity before the facility age
recommend_method_quantity_first(item) ==
    IF item.quantity >= 500 THEN "recycle"
    ELSE IF item.quantity >= 100 THEN "aid"
    ELSE IF item.facility_age >= 20 THEN "production_cut"
    ELSE "physical"

recommend_method(item) ==
    IF item.facility_age >= 20 THEN "production_cut"
    ELSE IF item.quantity >= 500 THEN "recycle"
    ELSE IF item.quantity >= 100 THEN "aid"
    ELSE "physical"

\* DISPOSAL_METHODS[method] of a method the dict has not: KeyError is raised
\* and there is no return value
KeyError(key) == [raised |-> "KeyError", key |-> key]

\* calculate_disposal_result subtracting the benefit from the cost
calculate_disposal_result_cost_minus_benefit(method, quantity) ==
    IF method \notin DOMAIN DISPOSAL_METHODS THEN KeyError(method)
    ELSE LET info == DISPOSAL_METHODS[method]
             cost == info.cost_per_unit * quantity
             benefit == info.benefit_per_unit * quantity
         IN  [cost |-> cost, benefit |-> benefit, net_effect |-> cost - benefit,
              env_score |-> info.env_score, risk_score |-> info.risk_score]

calculate_disposal_result(method, quantity) ==
    IF method \notin DOMAIN DISPOSAL_METHODS THEN KeyError(method)
    ELSE LET info == DISPOSAL_METHODS[method]
             cost == info.cost_per_unit * quantity
             benefit == info.benefit_per_unit * quantity
         IN  [cost |-> cost, benefit |-> benefit, net_effect |-> benefit - cost,
              env_score |-> info.env_score, risk_score |-> info.risk_score]

\* ------------------------------------------------------- SQL statements
\* The database as a connection sees it.
Db(i, a, s) == [items |-> i, audit_log |-> a, seq |-> s]
\* the database after init_db()
EmptyDb == Db(<<>>, <<>>, 0)

\* a row as INSERT INTO items (name, quantity, facility_age) creates it:
\* every other column takes its DEFAULT
NewRow(id, name, quantity, facility_age) ==
    [id |-> id, name |-> name, quantity |-> quantity,
     facility_age |-> facility_age, disposal_method |-> NULL, cost |-> 0,
     env_score |-> 0, risk_score |-> 0, expected_benefit |-> 0,
     net_effect |-> 0, mitigation_note |-> <<>>, status |-> "pending"]

\* SELECT * FROM items WHERE id = ? ... fetchone(): the row, and whether
\* there is none ("if not item")
fetchone(d, item_id) == d.items[item_id]
NoRow(d, item_id) == item_id \notin DOMAIN d.items

\* lastrowid of a table declared INTEGER PRIMARY KEY without AUTOINCREMENT:
\* one more than the largest rowid in the table
lastrowid_max_rowid(d) ==
    IF DOMAIN d.items = {} THEN 1
    ELSE (CHOOSE m \in DOMAIN d.items : \A j \in DOMAIN d.items : j <= m) + 1

\* cursor.lastrowid of the next INSERT INTO items (AUTOINCREMENT)
lastrowid(d) == d.seq + 1

\* the statements a handler executes after its checks
InsertItem(name, quantity, facility_age) ==
    [kind |-> "insert", name |-> name, quantity |-> quantity,
     facility_age |-> facility_age]
UpdateItem(item_id, set) == [kind |-> "update", id |-> item_id, set |-> set]
DeleteItem(item_id) == [kind |-> "delete", id |-> item_id]
Commit == [kind |-> "commit"]

\* INSERT INTO audit_log (item_id, item_name, action, detail)
_log_audit(item_id, item_name, action, detail) ==
    [kind |-> "audit", item_id |-> item_id, item_name |-> item_name,
     action |-> action, detail |-> detail]

\* Execute with audit_log.item_id declared REFERENCES items(id) ON DELETE
\* CASCADE: deleting an item deletes its audit rows
Execute_delete_cascades(d, s) ==
    CASE s.kind = "insert" ->
           LET id == lastrowid(d)
           IN  [d EXCEPT
                  !.items = [i \in DOMAIN d.items \cup {id} |->
                               IF i = id
                               THEN NewRow(id, s.name, s.quantity, s.facility_age)
                               ELSE d.items[i]],
                  !.seq = id]
      [] s.kind = "update" ->
           IF s.id \in DOMAIN d.items
           THEN [d EXCEPT !.items[s.id] =
                    [f \in DOMAIN @ |->
                       IF f \in DOMAIN s.set THEN s.set[f] ELSE @[f]]]
           ELSE d
      [] s.kind = "delete" ->
           [d EXCEPT
              !.items = [i \in DOMAIN d.items \ {s.id} |-> d.items[i]],
              !.audit_log = SelectSeq(@, LAMBDA e : e.item_id # s.id)]
      [] s.kind = "audit" ->
           [d EXCEPT !.audit_log =
               Append(@, [id |-> Len(@) + 1, item_id |-> s.item_id,
                          item_name |-> s.item_name, action |-> s.action,
                          detail |-> s.detail])]
      [] s.kind = "commit" -> d

\* the effect of one statement on the database the connection sees
Execute(d, s) ==
    CASE s.kind = "insert" ->
           LET id == lastrowid(d)
           IN  [d EXCEPT
                  !.items = [i \in DOMAIN d.items \cup {id} |->
                               IF i = id
                               THEN NewRow(id, s.name, s.quantity, s.facility_age)
                               ELSE d.items[i]],
                  !.seq = id]
      [] s.kind = "update" ->
           IF s.id \in DOMAIN d.items
           THEN [d EXCEPT !.items[s.id] =
                    [f \in DOMAIN @ |->
                       IF f \in DOMAIN s.set THEN s.set[f] ELSE @[f]]]
           ELSE d
      [] s.kind = "delete" ->
           [d EXCEPT !.items = [i \in DOMAIN d.items \ {s.id} |-> d.items[i]]]
      [] s.kind = "audit" ->
           [d EXCEPT !.audit_log =
               Append(@, [id |-> Len(@) + 1, item_id |-> s.item_id,
                          item_name |-> s.item_name, action |-> s.action,
                          detail |-> s.detail])]
      [] s.kind = "commit" -> d

RECURSIVE ExecuteAll(_, _)
ExecuteAll(d, stmts) ==
    IF stmts = <<>> THEN d ELSE ExecuteAll(Execute(d, Head(stmts)), Tail(stmts))

\* ---------------------------------------------------------------- handlers
\* What a handler does on the database d: the message it flashes (result),
\* the statements it executes up to and including conn.commit() (stmts), and
\* for auto_plan the number of rows it updated.
Flash(result) == [result |-> result, stmts |-> <<>>, updated |-> 0]
Done(stmts) == [result |-> "ok", stmts |-> stmts, updated |-> 0]

\* add_item clamping the quantity and the facility age from above only
add_item_clamped_above_only(d, form) ==
    LET name == Strip(form.name)
        quantity == IF form.quantity.int
                    THEN Min(form.quantity.val, MAX_QUANTITY)
                    ELSE 1
        facility_age == IF form.facility_age.int
                        THEN Min(form.facility_age.val, MAX_FACILITY_AGE)
                        ELSE 0
    IN  IF name = <<>> THEN Flash("name_required")
        ELSE IF Len(name) > MAX_NAME_LENGTH THEN Flash("name_too_long")
        ELSE Done(<< InsertItem(name, quantity, facility_age),
                     _log_audit(lastrowid(d), name, "add",
                                <<quantity, facility_age>>),
                     Commit >>)

add_item(d, form) ==
    LET name == Strip(form.name)
        quantity == IF form.quantity.int
                    THEN Max(1, Min(form.quantity.val, MAX_QUANTITY))
                    ELSE 1
        facility_age == IF form.facility_age.int
                        THEN Max(0, Min(form.facility_age.val, MAX_FACILITY_AGE))
                        ELSE 0
    IN  IF name = <<>> THEN Flash("name_required")
        ELSE IF Len(name) > MAX_NAME_LENGTH THEN Flash("name_too_long")
        ELSE Done(<< InsertItem(name, quantity, facility_age),
                     _log_audit(lastrowid(d), name, "add",
                                <<quantity, facility_age>>),
                     Commit >>)

delete_item(d, item_id) ==
    LET item == fetchone(d, item_id)
    IN  IF NoRow(d, item_id) THEN Flash("not_found")
        ELSE Done(<< _log_audit(item_id, item.name, "delete", <<item.status>>),
                     DeleteItem(item_id),
                     Commit >>)

\* select_method adding the new cost and benefit to the row's
select_method_accumulating(d, item_id, form) ==
    LET method == form.method
        mitigation_note == Strip(form.mitigation_note)
    IN  IF method \notin DOMAIN DISPOSAL_METHODS THEN Flash("invalid_method")
        ELSE IF Len(mitigation_note) > MAX_NOTE_LENGTH THEN Flash("note_too_long")
        ELSE LET item == fetchone(d, item_id)
             IN  IF NoRow(d, item_id) THEN Flash("not_found")
                 ELSE LET r == calculate_disposal_result(method, item.quantity)
                      IN  Done(<< UpdateItem(item_id,
                                     [disposal_method |-> method,
                                      cost |-> item.cost + r.cost,
                                      env_score |-> r.env_score,
                                      risk_score |-> r.risk_score,
                                      expected_benefit |->
                                          item.expected_benefit + r.benefit,
                                      net_effect |-> r.net_effect,
                                      mitigation_note |-> mitigation_note,
                                      status |-> "pending"]),
                                  _log_audit(item_id, item.name, "select_method",
                                     <<DISPOSAL_METHODS[method].label, r.cost>>),
                                  Commit >>)

\* select_method adding the note of the form to the note of the row
select_method_appending_note(d, item_id, form) ==
    LET method == form.method
        mitigation_note == Strip(form.mitigation_note)
    IN  IF method \notin DOMAIN DISPOSAL_METHODS THEN Flash("invalid_method")
        ELSE IF Len(mitigation_note) > MAX_NOTE_LENGTH THEN Flash("note_too_long")
        ELSE LET item == fetchone(d, item_id)
             IN  IF NoRow(d, item_id) THEN Flash("not_found")
                 ELSE LET r == calculate_disposal_result(method, item.quantity)
                      IN  Done(<< UpdateItem(item_id,
                                     [disposal_method |-> method,
                                      cost |-> r.cost,
                                      env_score |-> r.env_score,
                                      risk_score |-> r.risk_score,
                                      expected_benefit |-> r.benefit,
                                      net_effect |-> r.net_effect,
                                      mitigation_note |->
                                          item.mitigation_note \o mitigation_note,
                                      status |-> "pending"]),
                                  _log_audit(item_id, item.name, "select_method",
                                     <<DISPOSAL_METHODS[method].label, r.cost>>),
                                  Commit >>)

select_method(d, item_id, form) ==
    LET method == form.method
        mitigation_note == Strip(form.mitigation_note)
    IN  IF method \notin DOMAIN DISPOSAL_METHODS THEN Flash("invalid_method")
        ELSE IF Len(mitigation_note) > MAX_NOTE_LENGTH THEN Flash("note_too_long")
        ELSE LET item == fetchone(d, item_id)
             IN  IF NoRow(d, item_id) THEN Flash("not_found")
                 ELSE LET r == calculate_disposal_result(method, item.quantity)
                      IN  Done(<< UpdateItem(item_id,
                                     [disposal_method |-> method,
                                      cost |-> r.cost,
                                      env_score |-> r.env_score,
                                      risk_score |-> r.risk_score,
                                      expected_benefit |-> r.benefit,
                                      net_effect |-> r.net_effect,
                                      mitigation_note |-> mitigation_note,
                                      status |-> "pending"]),
                                  _log_audit(item_id, item.name, "select_method",
                                     <<DISPOSAL_METHODS[method].label, r.cost>>),
                                  Commit >>)

\* the UPDATE of apply_recommendation and auto_plan clearing the note too
RecommendationUpdate_clearing_note(item) ==
    LET method == recommend_method(item)
        r == calculate_disposal_result(method, item.quantity)
    IN  UpdateItem(item.id,
           [disposal_method |-> method, cost |-> r.cost,
            env_score |-> r.env_score, risk_score |-> r.risk_score,
            expected_benefit |-> r.benefit, net_effect |-> r.net_effect,
            mitigation_note |-> <<>>, status |-> "pending"])

\* the UPDATE of apply_recommendation and auto_plan without status = 'pending'
RecommendationUpdate_keeps_status(item) ==
    LET method == recommend_method(item)
        r == calculate_disposal_result(method, item.quantity)
    IN  UpdateItem(item.id,
           [disposal_method |-> method, cost |-> r.cost,
            env_score |-> r.env_score, risk_score |-> r.risk_score,
            expected_benefit |-> r.benefit, net_effect |-> r.net_effect])

\* the UPDATE shared by apply_recommendation and auto_plan: the recommended
\* method and its derived columns; mitigation_note is not in the SET list
RecommendationUpdate(item) ==
    LET method == recommend_method(item)
        r == calculate_disposal_result(method, item.quantity)
    IN  UpdateItem(item.id,
           [disposal_method |-> method, cost |-> r.cost,
            env_score |-> r.env_score, risk_score |-> r.risk_score,
            expected_benefit |-> r.benefit, net_effect |-> r.net_effect,
            status |-> "pending"])

apply_recommendation(d, item_id) ==
    LET item == fetchone(d, item_id)
    IN  IF NoRow(d, item_id) THEN Flash("not_found")
        ELSE Done(<< RecommendationUpdate(item),
                     _log_audit(item_id, item.name, "apply_recommendation",
                        <<DISPOSAL_METHODS[recommend_method(item)].label>>),
                     Commit >>)

\* SELECT * FROM items WHERE disposal_method IS NULL ... fetchall(), as the
\* sequence of the rows in rowid order
RECURSIVE RowsOf(_, _)
RowsOf(d, ids) ==
    IF ids = {} THEN <<>>
    ELSE LET m == CHOOSE x \in ids : \A y \in ids : x <= y
         IN  <<d.items[m]>> \o RowsOf(d, ids \ {m})

\* the SELECT of auto_plan taking the pending rows (WHERE status = 'pending')
fetchall_unplanned_pending_rows(d) ==
    RowsOf(d, {i \in DOMAIN d.items : d.items[i].status = "pending"})

fetchall_unplanned(d) ==
    RowsOf(d, {i \in DOMAIN d.items : d.items[i].disposal_method = NULL})

\* auto_plan writing one audit row for each item it updates
auto_plan_log_per_item(d) ==
    LET rows == fetchall_unplanned(d)
        updates == [k \in 1..Len(rows) |-> RecommendationUpdate(rows[k])]
        audits == [k \in 1..Len(rows) |->
                     _log_audit(rows[k].id, rows[k].name, "bulk_apply", <<1>>)]
        updated == Len(rows)
    IN  IF updated # 0
        THEN [result |-> "ok", stmts |-> updates \o audits \o <<Commit>>,
              updated |-> updated]
        ELSE [result |-> "no_target", stmts |-> <<Commit>>, updated |-> 0]

\* auto_plan selecting every row (the WHERE clause left out)
auto_plan_all_rows(d) ==
    LET rows == RowsOf(d, DOMAIN d.items)
        updates == [k \in 1..Len(rows) |-> RecommendationUpdate(rows[k])]
        updated == Len(rows)
    IN  IF updated # 0
        THEN [result |-> "ok",
              stmts |-> updates \o
                        << _log_audit(NoId, NoName, "bulk_apply", <<updated>>),
                           Commit >>,
              updated |-> updated]
        ELSE [result |-> "no_target", stmts |-> <<Commit>>, updated |-> 0]

auto_plan(d) ==
    LET rows == fetchall_unplanned(d)
        updates == [k \in 1..Len(rows) |-> RecommendationUpdate(rows[k])]
        updated == Len(rows)
    IN  IF updated # 0
        THEN [result |-> "ok",
              stmts |-> updates \o
                        << _log_audit(NoId, NoName, "bulk_apply", <<updated>>),
                           Commit >>,
              updated |-> updated]
        ELSE [result |-> "no_target", stmts |-> <<Commit>>, updated |-> 0]

\* approve with the check of disposal_method left out
approve_without_method_check(d, item_id) ==
    LET item == fetchone(d, item_id)
    IN  IF NoRow(d, item_id) THEN Flash("not_found")
        ELSE IF item.risk_score >= 3 /\ Strip(item.mitigation_note) = <<>>
             THEN Flash("mitigation_required")
        ELSE Done(<< UpdateItem(item_id, [status |-> "approved"]),
                     _log_audit(item_id, item.name, "approve",
                                <<item.disposal_method>>),
                     Commit >>)

\* approve asking for the mitigation note from risk score 2 on
approve_gate_at_two(d, item_id) ==
    LET item == fetchone(d, item_id)
    IN  IF NoRow(d, item_id) THEN Flash("not_found")
        ELSE IF item.disposal_method = NULL THEN Flash("method_required")
        ELSE IF item.risk_score >= 2 /\ Strip(item.mitigation_note) = <<>>
             THEN Flash("mitigation_required")
        ELSE Done(<< UpdateItem(item_id, [status |-> "approved"]),
                     _log_audit(item_id, item.name, "approve",
                                <<item.disposal_method>>),
                     Commit >>)

approve(d, item_id) ==
    LET item == fetchone(d, item_id)
    IN  IF NoRow(d, item_id) THEN Flash("not_found")
        ELSE IF item.disposal_method = NULL THEN Flash("method_required")
        ELSE IF item.risk_score >= 3 /\ Strip(item.mitigation_note) = <<>>
             THEN Flash("mitigation_required")
        ELSE Done(<< UpdateItem(item_id, [status |-> "approved"]),
                     _log_audit(item_id, item.name, "approve",
                                <<item.disposal_method>>),
                     Commit >>)

reject(d, item_id) ==
    LET item == fetchone(d, item_id)
    IN  IF NoRow(d, item_id) THEN Flash("not_found")
        ELSE Done(<< UpdateItem(item_id, [status |-> "rejected"]),
                     _log_audit(item_id, item.name, "reject", <<>>),
                     Commit >>)

\* reset_item flashing its error without returning
reset_item_missing_return(d, item_id) ==
    LET item == fetchone(d, item_id)
        stmts == << UpdateItem(item_id,
                       [status |-> "pending", disposal_method |-> NULL,
                        cost |-> 0, env_score |-> 0, risk_score |-> 0,
                        expected_benefit |-> 0, net_effect |-> 0,
                        mitigation_note |-> <<>>]),
                    _log_audit(item_id, item.name, "reset",
                               <<"rejected", "pending">>),
                    Commit >>
    IN  IF NoRow(d, item_id) THEN Flash("not_found")
        ELSE IF item.status # "rejected"
             THEN [result |-> "not_rejected", stmts |-> stmts, updated |-> 0]
        ELSE Done(stmts)

\* reset_item leaving the mitigation_note in place
reset_item_keeps_note(d, item_id) ==
    LET item == fetchone(d, item_id)
    IN  IF NoRow(d, item_id) THEN Flash("not_found")
        ELSE IF item.status # "rejected" THEN Flash("not_rejected")
        ELSE Done(<< UpdateItem(item_id,
                        [status |-> "pending", disposal_method |-> NULL,
                         cost |-> 0, env_score |-> 0, risk_score |-> 0,
                         expected_benefit |-> 0, net_effect |-> 0]),
                     _log_audit(item_id, item.name, "reset",
                                <<"rejected", "pending">>),
                     Commit >>)

\* reset_item with the check of the status left out
reset_item_any_status(d, item_id) ==
    LET item == fetchone(d, item_id)
    IN  IF NoRow(d, item_id) THEN Flash("not_found")
        ELSE Done(<< UpdateItem(item_id,
                        [status |-> "pending", disposal_method |-> NULL,
                         cost |-> 0, env_score |-> 0, risk_score |-> 0,
                         expected_benefit |-> 0, net_effect |-> 0,
                         mitigation_note |-> <<>>]),
                     _log_audit(item_id, item.name, "reset",
                                <<"rejected", "pending">>),
                     Commit >>)

reset_item(d, item_id) ==
    LET item == fetchone(d, item_id)
    IN  IF NoRow(d, item_id) THEN Flash("not_found")
        ELSE IF item.status # "rejected" THEN Flash("not_rejected")
        ELSE Done(<< UpdateItem(item_id,
                        [status |-> "pending", disposal_method |-> NULL,
                         cost |-> 0, env_score |-> 0, risk_score |-> 0,
                         expected_benefit |-> 0, net_effect |-> 0,
                         mitigation_note |-> <<>>]),
                     _log_audit(item_id, item.name, "reset",
                                <<"rejected", "pending">>),
                     Commit >>)

\* execute_disposal with the check of the status left out
execute_disposal_any_status(d, item_id) ==
    LET item == fetchone(d, item_id)
    IN  IF NoRow(d, item_id) THEN Flash("not_found")
        ELSE Done(<< UpdateItem(item_id, [status |-> "executed"]),
                     _log_audit(item_id, item.name, "execute",
                                <<item.disposal_method, item.cost>>),
                     Commit >>)

execute_disposal(d, item_id) ==
    LET item == fetchone(d, item_id)
    IN  IF NoRow(d, item_id) THEN Flash("not_found")
        ELSE IF item.status # "approved" THEN Flash("not_approved")
        ELSE Done(<< UpdateItem(item_id, [status |-> "executed"]),
                     _log_audit(item_id, item.name, "execute",
                                <<item.disposal_method, item.cost>>),
                     Commit >>)

\* ------------------------------------------------------------ requests
\* Form data of POST /add.
AddForms ==
    { [name |-> <<" ", "D", "4", " ">>, quantity |-> IntText(100),
       facility_age |-> IntText(5)],
      [name |-> <<"S">>, quantity |-> NotIntText, facility_age |-> IntText(150)],
      [name |-> <<" ", " ">>, quantity |-> IntText(1),
       facility_age |-> IntText(0)],
      [name |-> Rep(MAX_NAME_LENGTH + 1, "x"), quantity |-> IntText(1),
       facility_age |-> IntText(0)] }

\* Form data of POST /select_method/<id>.
SelectForms ==
    { [method |-> "recycle", mitigation_note |-> <<" ">>],
      [method |-> "physical", mitigation_note |-> <<" ", "n", " ">>],
      [method |-> "invalid_method", mitigation_note |-> <<>>],
      [method |-> "recycle", mitigation_note |-> Rep(MAX_NOTE_LENGTH + 1, "X")] }

\* <int:item_id> of the URL
ItemIds == 1..MaxItems

\* the handler of a request on the database d
Handle(d, r) ==
    CASE r.op = "add_item" -> add_item(d, r.form)
      [] r.op = "delete_item" -> delete_item(d, r.item_id)
      [] r.op = "select_method" -> select_method(d, r.item_id, r.form)
      [] r.op = "apply_recommendation" -> apply_recommendation(d, r.item_id)
      [] r.op = "auto_plan" -> auto_plan(d)
      [] r.op = "approve" -> approve(d, r.item_id)
      [] r.op = "reject" -> reject(d, r.item_id)
      [] r.op = "reset_item" -> reset_item(d, r.item_id)
      [] r.op = "execute_disposal" -> execute_disposal(d, r.item_id)

Request(op, item_id, form) == [op |-> op, item_id |-> item_id, form |-> form]
NoForm == [none |-> TRUE]
\* no request in progress, no connection open
NoRequest == [request |-> Request("none", NoId, NoForm)]
NoConn == [closed |-> TRUE]

Requests ==
    {Request("add_item", NoId, form) : form \in AddForms}
    \cup {Request("select_method", i, form) : i \in ItemIds, form \in SelectForms}
    \cup {Request(op, i, NoForm) :
             op \in {"delete_item", "apply_recommendation", "approve", "reject",
                     "reset_item", "execute_disposal"},
             i \in ItemIds}
    \cup {Request("auto_plan", NoId, NoForm)}

\* What the response shows: the message flashed, and with a success message
\* the handler that flashed it, the id of its URL and (auto_plan) the count
\* in the message.  An error message is the same text whatever the id.
\* raised: the statement whose sqlite3.Error logger.exception() recorded.
Response(r, h) ==
    IF h.result = "ok"
    THEN [op |-> r.op, item_id |-> r.item_id, result |-> h.result,
          updated |-> h.updated, raised |-> "none"]
    ELSE [op |-> "error", item_id |-> NoId, result |-> h.result, updated |-> 0,
          raised |-> "none"]

\* a request is being served: no response yet
NoResponse ==
    [op |-> "none", item_id |-> NoId, result |-> "none", updated |-> 0,
     raised |-> "none"]

\* ------------------------------------------------- the requests, one by one
\* A request runs to completion: its handler's statements and the commit.
Serve(r) ==
    \E h \in {Handle(Db(items, audit_log, seq), r)} :
      \E e \in {ExecuteAll(Db(items, audit_log, seq), h.stmts)} :
        /\ e.seq <= MaxItems
        /\ Len(e.audit_log) <= MaxLog
        /\ items' = e.items
        /\ audit_log' = e.audit_log
        /\ seq' = e.seq
        /\ last' = Response(r, h)

AddItem ==
    \E form \in AddForms :
        /\ req = NoRequest
        /\ Serve(Request("add_item", NoId, form))
        /\ UNCHANGED <<req, conn, todo>>

DeleteItemReq ==
    \E i \in ItemIds :
        /\ req = NoRequest
        /\ Serve(Request("delete_item", i, NoForm))
        /\ UNCHANGED <<req, conn, todo>>

SelectMethod ==
    \E i \in ItemIds, form \in SelectForms :
        /\ req = NoRequest
        /\ Serve(Request("select_method", i, form))
        /\ UNCHANGED <<req, conn, todo>>

ApplyRecommendation ==
    \E i \in ItemIds :
        /\ req = NoRequest
        /\ Serve(Request("apply_recommendation", i, NoForm))
        /\ UNCHANGED <<req, conn, todo>>

AutoPlan ==
    /\ req = NoRequest
    /\ Serve(Request("auto_plan", NoId, NoForm))
    /\ UNCHANGED <<req, conn, todo>>

Approve ==
    \E i \in ItemIds :
        /\ req = NoRequest
        /\ Serve(Request("approve", i, NoForm))
        /\ UNCHANGED <<req, conn, todo>>

Reject ==
    \E i \in ItemIds :
        /\ req = NoRequest
        /\ Serve(Request("reject", i, NoForm))
        /\ UNCHANGED <<req, conn, todo>>

ResetItem ==
    \E i \in ItemIds :
        /\ req = NoRequest
        /\ Serve(Request("reset_item", i, NoForm))
        /\ UNCHANGED <<req, conn, todo>>

ExecuteDisposal ==
    \E i \in ItemIds :
        /\ req = NoRequest
        /\ Serve(Request("execute_disposal", i, NoForm))
        /\ UNCHANGED <<req, conn, todo>>

\* the database after init_db(): both tables empty
Init ==
    /\ items = <<>>
    /\ audit_log = <<>>
    /\ seq = 0
    /\ last = [op |-> "init_db", item_id |-> NoId, result |-> "ok",
               updated |-> 0, raised |-> "none"]
    /\ req = NoRequest
    /\ conn = NoConn
    /\ todo = <<>>

Next ==
    \/ AddItem
    \/ DeleteItemReq
    \/ SelectMethod
    \/ ApplyRecommendation
    \/ AutoPlan
    \/ Approve
    \/ Reject
    \/ ResetItem
    \/ ExecuteDisposal

\* Every request is served whole and the storage never fails.
Spec == Init /\ [][Next]_vars

\* ------------------------------------- the requests, statement by statement
\* get_db(): what is committed when a statement raises sqlite3.Error, the
\* committed database being c and the connection seeing d: conn.rollback()
\* get_db committing where it should roll back
get_db_except_commits(c, d) == d

get_db_except(c, d) == c

\* conn.commit(): what is committed afterwards
commit(c, d) == d

\* The handler runs up to its first writing statement: the form checks, the
\* SELECT and the checks on the row.  A handler that flashes an error returns
\* here; otherwise the connection is open, its statements are pending and
\* the response is still to come.
TxBegin ==
    \E r \in Requests :
      \E h \in {Handle(Db(items, audit_log, seq), r)} :
        \E e \in {ExecuteAll(Db(items, audit_log, seq), h.stmts)} :
          /\ req = NoRequest
          /\ e.seq <= MaxItems
          /\ Len(e.audit_log) <= MaxLog
          /\ IF h.stmts = <<>>
             THEN /\ last' = Response(r, h)
                  /\ UNCHANGED <<req, conn, todo>>
             ELSE /\ req' = [request |-> r, h |-> h]
                  /\ conn' = Db(items, audit_log, seq)
                  /\ todo' = h.stmts
                  /\ last' = NoResponse
          /\ UNCHANGED <<items, audit_log, seq>>

\* conn.execute(...) of the next UPDATE, INSERT or DELETE: seen by the
\* connection only
TxExecute ==
    /\ req # NoRequest
    /\ Head(todo).kind # "commit"
    /\ conn' = Execute(conn, Head(todo))
    /\ todo' = Tail(todo)
    /\ UNCHANGED <<items, audit_log, seq, last, req>>

\* conn.commit() succeeds; the handler flashes its message
TxCommit ==
    /\ req # NoRequest
    /\ Head(todo).kind = "commit"
    /\ LET c == commit(Db(items, audit_log, seq), conn)
       IN  /\ items' = c.items
           /\ audit_log' = c.audit_log
           /\ seq' = c.seq
    /\ last' = Response(req.request, req.h)
    /\ req' = NoRequest
    /\ conn' = NoConn
    /\ todo' = <<>>

\* The next statement (conn.commit() included) raises sqlite3.Error: get_db
\* rolls back and closes, the handler logs the exception and flashes its own
\* failure message.
TxError ==
    /\ req # NoRequest
    /\ LET c == get_db_except(Db(items, audit_log, seq), conn)
       IN  /\ items' = c.items
           /\ audit_log' = c.audit_log
           /\ seq' = c.seq
    /\ last' = [op |-> req.request.op, item_id |-> req.request.item_id,
                result |-> "db_error", updated |-> 0,
                raised |-> Head(todo).kind]
    /\ req' = NoRequest
    /\ conn' = NoConn
    /\ todo' = <<>>

TxNext == TxBegin \/ TxExecute \/ TxCommit \/ TxError

\* Requests are served one after the other; any statement may fail.
TxSpec == Init /\ [][TxNext]_vars

\* ------------------------------------------------------ the life of an item
\* The requests one by one as in Spec, on fewer items and for longer.
LifeServe(r) ==
    \E h \in {Handle(Db(items, audit_log, seq), r)} :
      \E e \in {ExecuteAll(Db(items, audit_log, seq), h.stmts)} :
        /\ e.seq <= MaxLifeItems
        /\ Len(e.audit_log) <= MaxLifeLog
        /\ items' = e.items
        /\ audit_log' = e.audit_log
        /\ seq' = e.seq
        /\ last' = Response(r, h)

LifeIds == 1..MaxLifeItems

LifeAddItem ==
    \E form \in AddForms :
        /\ req = NoRequest
        /\ LifeServe(Request("add_item", NoId, form))
        /\ UNCHANGED <<req, conn, todo>>

LifeDeleteItem ==
    \E i \in LifeIds :
        /\ req = NoRequest
        /\ LifeServe(Request("delete_item", i, NoForm))
        /\ UNCHANGED <<req, conn, todo>>

LifeSelectMethod ==
    \E i \in LifeIds, form \in SelectForms :
        /\ req = NoRequest
        /\ LifeServe(Request("select_method", i, form))
        /\ UNCHANGED <<req, conn, todo>>

LifeApplyRecommendation ==
    \E i \in LifeIds :
        /\ req = NoRequest
        /\ LifeServe(Request("apply_recommendation", i, NoForm))
        /\ UNCHANGED <<req, conn, todo>>

LifeAutoPlan ==
    /\ req = NoRequest
    /\ LifeServe(Request("auto_plan", NoId, NoForm))
    /\ UNCHANGED <<req, conn, todo>>

LifeApprove ==
    \E i \in LifeIds :
        /\ req = NoRequest
        /\ LifeServe(Request("approve", i, NoForm))
        /\ UNCHANGED <<req, conn, todo>>

LifeReject ==
    \E i \in LifeIds :
        /\ req = NoRequest
        /\ LifeServe(Request("reject", i, NoForm))
        /\ UNCHANGED <<req, conn, todo>>

LifeResetItem ==
    \E i \in LifeIds :
        /\ req = NoRequest
        /\ LifeServe(Request("reset_item", i, NoForm))
        /\ UNCHANGED <<req, conn, todo>>

LifeExecuteDisposal ==
    \E i \in LifeIds :
        /\ req = NoRequest
        /\ LifeServe(Request("execute_disposal", i, NoForm))
        /\ UNCHANGED <<req, conn, todo>>

LifeNext ==
    \/ LifeAddItem
    \/ LifeDeleteItem
    \/ LifeSelectMethod
    \/ LifeApplyRecommendation
    \/ LifeAutoPlan
    \/ LifeApprove
    \/ LifeReject
    \/ LifeResetItem
    \/ LifeExecuteDisposal

\* Every request is served whole, from the empty store on.
LifeSpec == Init /\ [][LifeNext]_vars

\* ------------------------------------------------ the pure functions, called
\* The arguments the two pure functions are called with: every facility age
\* of the range, the quantities up to MaxQuantitySample and the largest ones,
\* every method of the catalog and one that is not in it.
Ages == 0..MAX_FACILITY_AGE
Quantities == (1..MaxQuantitySample) \cup {1000, MAX_QUANTITY - 1, MAX_QUANTITY}
Methods == DOMAIN DISPOSAL_METHODS \cup {"invalid_method"}

\* the two calls
RecommendCall(a, q) ==
    Request("recommend_method", NoId, [facility_age |-> a, quantity |-> q])
CalculateCall(m, q) ==
    Request("calculate_disposal_result", NoId, [method |-> m, quantity |-> q])

\* what a call returned, or the exception it raised
Returned(op, value) ==
    [op |-> op, item_id |-> NoId, result |-> value, updated |-> 0,
     raised |-> "none"]
Raised(op, e) ==
    [op |-> op, item_id |-> NoId, result |-> NULL, updated |-> 0,
     raised |-> e.raised]

\* a call is about to be made, on a database that plays no part in it
PureInit ==
    /\ items = <<>>
    /\ audit_log = <<>>
    /\ seq = 0
    /\ last = NoResponse
    /\ \/ \E a \in Ages, q \in Quantities :
             req = [request |-> RecommendCall(a, q)]
       \/ \E m \in Methods, q \in Quantities :
             req = [request |-> CalculateCall(m, q)]
    /\ conn = NoConn
    /\ todo = <<>>

RecommendMethod ==
    /\ req.request.op = "recommend_method"
    /\ last.op = "none"
    /\ last' = Returned("recommend_method", recommend_method(req.request.form))
    /\ UNCHANGED <<items, audit_log, seq, req, conn, todo>>

CalculateDisposalResult ==
    /\ req.request.op = "calculate_disposal_result"
    /\ last.op = "none"
    /\ \E r \in {calculate_disposal_result(req.request.form.method,
                                            req.request.form.quantity)} :
          last' = IF "raised" \in DOMAIN r
                  THEN Raised("calculate_disposal_result", r)
                  ELSE Returned("calculate_disposal_result", r)
    /\ UNCHANGED <<items, audit_log, seq, req, conn, todo>>

PureNext == RecommendMethod \/ CalculateDisposalResult

\* One call of recommend_method or calculate_disposal_result.
PureSpec == PureInit /\ [][PureNext]_vars

\* ------------------------------------------------- two requests at a time
\* app.run() serves each request in a thread of its own, each with its own
\* connection.  The SELECT of a handler runs outside any transaction (the
\* sqlite3 module opens one before INSERT, UPDATE and DELETE only); the
\* UPDATE or DELETE, the audit INSERT and the commit run in one write
\* transaction, of which SQLite allows one at a time.
Threads == {1, 2}

\* the requests of rs served one after the other on the database d
RECURSIVE Sequential(_, _)
Sequential(d, rs) ==
    IF rs = <<>> THEN d
    ELSE Sequential(ExecuteAll(d, Handle(d, Head(rs)).stmts), Tail(rs))

\* The store the two requests find: item 1 pending with a method, item 2
\* approved, item 3 rejected.
ConcStore ==
    Sequential(EmptyDb,
       << Request("add_item", NoId,
             [name |-> <<" ", "D", "4", " ">>, quantity |-> IntText(100),
              facility_age |-> IntText(5)]),
          Request("add_item", NoId,
             [name |-> <<"S">>, quantity |-> NotIntText,
              facility_age |-> IntText(150)]),
          Request("add_item", NoId,
             [name |-> <<" ", "D", "4", " ">>, quantity |-> IntText(100),
              facility_age |-> IntText(5)]),
          Request("select_method", 1,
             [method |-> "physical", mitigation_note |-> <<" ", "n", " ">>]),
          Request("select_method", 2,
             [method |-> "physical", mitigation_note |-> <<" ", "n", " ">>]),
          Request("select_method", 3,
             [method |-> "recycle", mitigation_note |-> <<" ">>]),
          Request("approve", 2, NoForm),
          Request("reject", 3, NoForm) >>)

\* the requests on item i
RequestsOn(i) ==
    {Request("select_method", i, form) :
        form \in {f \in SelectForms : f.method = "recycle"}}
    \cup {Request(op, i, NoForm) :
             op \in {"delete_item", "apply_recommendation", "approve", "reject",
                     "reset_item", "execute_disposal"}}

\* two requests on the same item arrive
ConcInit ==
    /\ items = ConcStore.items
    /\ audit_log = ConcStore.audit_log
    /\ seq = ConcStore.seq
    /\ \E i \in DOMAIN ConcStore.items :
         \E r1 \in RequestsOn(i), r2 \in RequestsOn(i) :
            req = [t \in Threads |->
                     [request |-> IF t = 1 THEN r1 ELSE r2, pc |-> "select"]]
    /\ conn = [t \in Threads |-> NoConn]
    /\ todo = [t \in Threads |-> <<>>]
    /\ last = [t \in Threads |-> NoResponse]

\* conn.execute("SELECT ...").fetchone(): the thread reads the committed
\* database
ThreadSelect ==
    \E t \in Threads :
        /\ req[t].pc = "select"
        /\ conn' = [conn EXCEPT ![t] = Db(items, audit_log, seq)]
        /\ req' = [req EXCEPT ![t].pc = "check"]
        /\ UNCHANGED <<items, audit_log, seq, last, todo>>

\* the checks of the handler on the row it read: it flashes an error and
\* returns, or goes on to its statements, computed from that row
ThreadCheck ==
    \E t \in Threads :
        /\ req[t].pc = "check"
        /\ \E h \in {Handle(conn[t], req[t].request)} :
             IF h.stmts = <<>>
             THEN /\ last' = [last EXCEPT ![t] = Response(req[t].request, h)]
                  /\ req' = [req EXCEPT ![t].pc = "done"]
                  /\ UNCHANGED todo
             ELSE /\ todo' = [todo EXCEPT ![t] = h.stmts]
                  /\ req' = [req EXCEPT ![t].pc = "write"]
                  /\ UNCHANGED last
        /\ UNCHANGED <<items, audit_log, seq, conn>>

\* the write transaction of the handler, on the database as it is committed
\* now, and the success message
ThreadWrite ==
    \E t \in Threads :
        /\ req[t].pc = "write"
        /\ \E e \in {ExecuteAll(Db(items, audit_log, seq), todo[t])} :
             /\ items' = e.items
             /\ audit_log' = e.audit_log
             /\ seq' = e.seq
        /\ last' = [last EXCEPT
                      ![t] = Response(req[t].request,
                                      Handle(conn[t], req[t].request))]
        /\ req' = [req EXCEPT ![t].pc = "done"]
        /\ todo' = [todo EXCEPT ![t] = <<>>]
        /\ UNCHANGED conn

ConcNext == ThreadSelect \/ ThreadCheck \/ ThreadWrite

\* Two requests on one item served by two threads.
ConcSpec == ConcInit /\ [][ConcNext]_vars

\* ------------------------------------------------------------ properties
\* the committed database
Committed == Db(items, audit_log, seq)

\* the positions of the audit rows of one action on one item
AuditRows(i, action) ==
    {k \in 1..Len(audit_log) :
        audit_log[k].item_id = i /\ audit_log[k].action = action}

\* C1: apart from the reset to pending done by select_method,
\* apply_recommendation and auto_plan, every change of an item's status is
\* one of the four edges pending->approved (approve), approved->executed
\* (execute_disposal), pending->rejected (reject), rejected->pending
\* (reset_item).
C1_OnlyFourStatusEdges ==
    [][\A i \in DOMAIN items \cap DOMAIN items' :
         items'[i].status # items[i].status =>
           \/ /\ items'[i].status = "pending"
              /\ last'.op \in {"select_method", "apply_recommendation",
                               "auto_plan"}
           \/ /\ items[i].status = "pending"
              /\ items'[i].status = "approved"
              /\ last'.op = "approve"
           \/ /\ items[i].status = "approved"
              /\ items'[i].status = "executed"
              /\ last'.op = "execute_disposal"
           \/ /\ items[i].status = "pending"
              /\ items'[i].status = "rejected"
              /\ last'.op = "reject"
           \/ /\ items[i].status = "rejected"
              /\ items'[i].status = "pending"
              /\ last'.op = "reset_item"]_vars

\* C2: execute_disposal on an existing item succeeds, making its status
\* executed, exactly when the status is approved; a step that makes a status
\* executed is a step of execute_disposal from approved; and an executed item
\* has an approve row before its execute row in the audit log.
C2_ExecuteOnlyFromApproved ==
    /\ [](\A i \in DOMAIN items :
            LET h == execute_disposal(Committed, i)
            IN  /\ (h.result = "ok") <=> (items[i].status = "approved")
                /\ h.result = "ok" =>
                     ExecuteAll(Committed, h.stmts).items[i].status = "executed"
                /\ h.result # "ok" => h.stmts = <<>>
                /\ items[i].status = "executed" =>
                     \E k \in AuditRows(i, "approve") :
                        \E m \in AuditRows(i, "execute") : k < m)
    /\ [][\A i \in DOMAIN items \cap DOMAIN items' :
            (items'[i].status = "executed" /\ items[i].status # "executed") =>
               /\ items[i].status = "approved"
               /\ last'.op = "execute_disposal"
               /\ last'.item_id = i]_vars

\* C2 witness: execute_disposal has just made an item executed
C2_Witness ==
    /\ last.op = "execute_disposal"
    /\ last.result = "ok"
    /\ last.item_id \in DOMAIN items
    /\ items[last.item_id].status = "executed"

\* a database whose only item has a method of risk score 3, which the
\* catalog of the code never produces: the row the gate of approve is for
HighRiskDb(note) ==
    Db([i \in {1} |->
          [NewRow(1, <<"H">>, 1, 0) EXCEPT
             !.disposal_method = "physical", !.risk_score = 3,
             !.mitigation_note = note]],
       <<>>, 1)

\* C3: every approved or executed item has a disposal_method and
\* (risk_score < 3 or a mitigation_note that is not blank); approve on an
\* item without method, or of risk_score >= 3 with a blank note, fails and
\* changes nothing.
C3_ApprovedHasMethodAndGate ==
    /\ \A i \in DOMAIN items :
         LET h == approve(Committed, i)
             blocked == \/ items[i].disposal_method = NULL
                        \/ /\ items[i].risk_score >= 3
                           /\ Strip(items[i].mitigation_note) = <<>>
         IN  /\ items[i].status \in {"approved", "executed"} => ~blocked
             /\ blocked => h.result # "ok" /\ h.stmts = <<>>
    /\ \A note \in {<<>>, <<" ">>, <<" ", "\t">>} :
         LET h == approve(HighRiskDb(note), 1)
         IN  h.result = "mitigation_required" /\ h.stmts = <<>>
    /\ approve(HighRiskDb(<<" ", "n">>), 1).result = "ok"

\* C3 witness: approve has just failed for want of a method while another
\* item is approved
C3_Witness ==
    /\ last.result = "method_required"
    /\ \E i \in DOMAIN items : items[i].status = "approved"
    /\ \E i \in DOMAIN items : items[i].disposal_method = NULL

\* C4: an item without disposal_method has cost, env_score, risk_score,
\* expected_benefit and net_effect 0 and an empty mitigation_note; an item of
\* method m has the values of the catalog entry of m for its quantity.
C4_DerivedFieldsFollowMethod ==
    \A i \in DOMAIN items :
        LET it == items[i]
        IN  IF it.disposal_method = NULL
            THEN /\ it.cost = 0
                 /\ it.env_score = 0
                 /\ it.risk_score = 0
                 /\ it.expected_benefit = 0
                 /\ it.net_effect = 0
                 /\ it.mitigation_note = <<>>
            ELSE LET m == DISPOSAL_METHODS[it.disposal_method]
                 IN  /\ it.cost = m.cost_per_unit * it.quantity
                     /\ it.expected_benefit = m.benefit_per_unit * it.quantity
                     /\ it.net_effect = it.expected_benefit - it.cost
                     /\ it.env_score = m.env_score
                     /\ it.risk_score = m.risk_score

\* C4 witness: a method has been selected a second time for an item
C4_Witness ==
    /\ last.op = "select_method"
    /\ last.item_id \in DOMAIN items
    /\ Cardinality(AuditRows(last.item_id, "select_method")) >= 2
    /\ items[last.item_id].cost > 0

\* the audit action each handler writes
ActionOf ==
    [add_item |-> "add", delete_item |-> "delete",
     select_method |-> "select_method",
     apply_recommendation |-> "apply_recommendation",
     auto_plan |-> "bulk_apply", approve |-> "approve", reject |-> "reject",
     reset_item |-> "reset", execute_disposal |-> "execute"]

\* the messages of the not-found, validation and precondition outcomes
NotFoundResults == {"not_found"}
ValidationResults ==
    {"name_required", "name_too_long", "invalid_method", "note_too_long"}
PreconditionResults ==
    {"method_required", "mitigation_required", "not_approved", "not_rejected"}

\* C5: a request that succeeds appends exactly one audit row, of the id of
\* the item operated on and of the action of its handler (auto_plan: one
\* summary row without item id); a request that does not succeed appends
\* none.  So the log grows by one exactly at the successful requests.
C5_OneAuditRowPerSuccess ==
    [][/\ last'.result = "ok" =>
            /\ Len(audit_log') = Len(audit_log) + 1
            /\ SubSeq(audit_log', 1, Len(audit_log)) = audit_log
            /\ LET e == audit_log'[Len(audit_log')]
               IN  /\ e.action = ActionOf[last'.op]
                   /\ e.item_id =
                        IF last'.op = "auto_plan" THEN NoId
                        ELSE IF last'.op = "add_item" THEN seq'
                        ELSE last'.item_id
                   /\ last'.op = "add_item" =>
                        DOMAIN items' \ DOMAIN items = {e.item_id}
                   /\ last'.op = "delete_item" =>
                        DOMAIN items \ DOMAIN items' = {e.item_id}
                   /\ last'.op \notin {"add_item", "auto_plan"} =>
                        e.item_id \in DOMAIN items
       /\ last'.result # "ok" => audit_log' = audit_log]_vars

\* C5 witness: delete_item has just written its audit row
C5_Witness ==
    /\ last.op = "delete_item"
    /\ last.result = "ok"
    /\ audit_log[Len(audit_log)].action = "delete"
    /\ audit_log[Len(audit_log)].item_id = last.item_id
    /\ last.item_id \notin DOMAIN items

\* C6: a request that ends not-found (unknown id), in a validation error
\* (blank or over-long name, over-long note, method outside the catalog) or
\* in a precondition error (approve without method, execute when not
\* approved, reset when not rejected) changes neither the items nor the
\* audit log; and each of these conditions does end the request that way.
C6_FailureChangesNothing ==
    /\ [](\A r \in Requests :
            LET h == Handle(Committed, r)
                i == r.item_id
                known == i \in DOMAIN items
                bad_form ==
                    /\ r.op = "select_method"
                    /\ \/ r.form.method \notin DOMAIN DISPOSAL_METHODS
                       \/ Len(Strip(r.form.mitigation_note)) > MAX_NOTE_LENGTH
            IN  /\ (i # NoId /\ ~known /\ ~bad_form) => h.result = "not_found"
                /\ (r.op = "add_item" /\ Strip(r.form.name) = <<>>) =>
                     h.result = "name_required"
                /\ (r.op = "add_item" /\ Len(Strip(r.form.name)) > MAX_NAME_LENGTH)
                     => h.result = "name_too_long"
                /\ bad_form => h.result \in ValidationResults
                /\ (r.op = "approve" /\ known /\ items[i].disposal_method = NULL)
                     => h.result = "method_required"
                /\ (r.op = "execute_disposal" /\ known
                    /\ items[i].status # "approved") => h.result = "not_approved"
                /\ (r.op = "reset_item" /\ known /\ items[i].status # "rejected")
                     => h.result = "not_rejected"
                /\ h.result \in NotFoundResults \cup ValidationResults
                                \cup PreconditionResults =>
                     ExecuteAll(Committed, h.stmts) = Committed)
    /\ [][last'.result \in NotFoundResults \cup ValidationResults
                           \cup PreconditionResults =>
            UNCHANGED <<items, audit_log, seq>>]_vars

\* C6 witness: execute_disposal has just been refused on an item that has a
\* method but is not approved
C6_Witness ==
    /\ last.result = "not_approved"
    /\ \E i \in DOMAIN items :
          items[i].disposal_method # NULL /\ items[i].status = "rejected"
    /\ audit_log # <<>>

\* the items without disposal_method, and an item as auto_plan leaves it
Unplanned == {i \in DOMAIN items : items[i].disposal_method = NULL}
Planned(it) ==
    LET m == recommend_method(it)
        r == calculate_disposal_result(m, it.quantity)
    IN  [it EXCEPT !.disposal_method = m, !.cost = r.cost,
                   !.env_score = r.env_score, !.risk_score = r.risk_score,
                   !.expected_benefit = r.benefit, !.net_effect = r.net_effect,
                   !.status = "pending"]

\* C7: auto_plan on a store with N items without method gives exactly those
\* N items their recommended method and its derived fields, reports N and
\* appends one audit row recording N; with N = 0 it changes nothing.
C7_AutoPlanUpdatesExactlyUnplanned ==
    /\ [](LET h == auto_plan(Committed)
              e == ExecuteAll(Committed, h.stmts)
          IN  IF Unplanned = {}
              THEN h.result = "no_target" /\ e = Committed
              ELSE h.result = "ok" /\ h.updated = Cardinality(Unplanned))
    /\ [][last'.op = "auto_plan" =>
            /\ Unplanned # {}
            /\ last'.updated = Cardinality(Unplanned)
            /\ DOMAIN items' = DOMAIN items
            /\ \A i \in DOMAIN items :
                  items'[i] = IF i \in Unplanned THEN Planned(items[i])
                              ELSE items[i]
            /\ audit_log' =
                  Append(audit_log,
                         [id |-> Len(audit_log) + 1, item_id |-> NoId,
                          item_name |-> NoName, action |-> "bulk_apply",
                          detail |-> <<Cardinality(Unplanned)>>])]_vars

\* C7 witness: auto_plan has just planned two items at once
C7_Witness ==
    /\ last.op = "auto_plan"
    /\ last.updated = 2
    /\ audit_log[Len(audit_log)].detail = <<2>>
    /\ \A i \in DOMAIN items : items[i].disposal_method # NULL

\* the audit row that add_item wrote for item i
AddRow(i) == audit_log[CHOOSE k \in AuditRows(i, "add") : TRUE]

\* C8: reject followed by reset_item, on an item in any reachable state,
\* both succeed and leave the item as add_item created it: status pending,
\* no method, cost, scores, benefit and net effect 0, empty note, and the id,
\* name, quantity and facility_age it was added with (which it still had).
C8_RejectThenResetRestoresNewItem ==
    \A i \in DOMAIN items :
        LET h1 == reject(Committed, i)
            d1 == ExecuteAll(Committed, h1.stmts)
            h2 == reset_item(d1, i)
            d2 == ExecuteAll(d1, h2.stmts)
            a == AddRow(i)
        IN  /\ h1.result = "ok"
            /\ d1.items[i].status = "rejected"
            /\ h2.result = "ok"
            /\ d2.items[i] =
                 [id |-> i, name |-> a.item_name, quantity |-> a.detail[1],
                  facility_age |-> a.detail[2], disposal_method |-> NULL,
                  cost |-> 0, env_score |-> 0, risk_score |-> 0,
                  expected_benefit |-> 0, net_effect |-> 0,
                  mitigation_note |-> <<>>, status |-> "pending"]
            /\ d2.items[i].name = items[i].name
            /\ d2.items[i].quantity = items[i].quantity
            /\ d2.items[i].facility_age = items[i].facility_age

\* C8 witness: an item that had a method and a note has been rejected and
\* then reset, and is as it was added
C8_Witness ==
    /\ last.op = "reset_item"
    /\ last.result = "ok"
    /\ Len(audit_log) >= 4
    /\ audit_log[Len(audit_log) - 1].action = "reject"
    /\ audit_log[Len(audit_log) - 1].item_id = last.item_id
    /\ audit_log[Len(audit_log) - 2].action = "select_method"
    /\ audit_log[Len(audit_log) - 2].item_id = last.item_id
    /\ audit_log[Len(audit_log) - 2].detail[1] = "butsuri-hakai"
    /\ items[last.item_id].disposal_method = NULL
    /\ items[last.item_id].mitigation_note = <<>>
    /\ items[last.item_id].status = "pending"

\* C9: reset_item on an existing item succeeds exactly when its status is
\* rejected; a step in which an item's method goes from set to null is a step
\* of reset_item from rejected to pending.
C9_ResetOnlyFromRejected ==
    /\ [](\A i \in DOMAIN items :
            LET h == reset_item(Committed, i)
            IN  /\ (h.result = "ok") <=> (items[i].status = "rejected")
                /\ h.result # "ok" => h.stmts = <<>>)
    /\ [][\A i \in DOMAIN items \cap DOMAIN items' :
            (items[i].disposal_method # NULL
             /\ items'[i].disposal_method = NULL) =>
               /\ items[i].status = "rejected"
               /\ items'[i].status = "pending"
               /\ last'.op = "reset_item"
               /\ last'.item_id = i]_vars

\* C9 witness: reset_item has just been refused, every item being executed
C9_Witness ==
    /\ last.result = "not_rejected"
    /\ items # <<>>
    /\ \A i \in DOMAIN items : items[i].status = "executed"

\* C10: when a statement of a request raises a storage error, at the
\* UPDATE, between the updates of auto_plan, at the audit INSERT or at the
\* commit, the committed store stays the store from before the request; the
\* committed store changes only at a commit that succeeds, and then to the
\* result of the whole request.
C10_StorageFailureIsAtomic ==
    [][/\ last'.result = "db_error" => UNCHANGED <<items, audit_log, seq>>
       /\ <<items', audit_log', seq'>> # <<items, audit_log, seq>> =>
            /\ req # NoRequest
            /\ todo = <<Commit>>
            /\ last'.result = "ok"
            /\ Db(items', audit_log', seq') =
                 ExecuteAll(Committed, Handle(Committed, req.request).stmts)]_vars

\* C10 witness: the audit INSERT of auto_plan has just failed after the
\* updates of two items, and no item is planned
C10_Witness ==
    /\ last.op = "auto_plan"
    /\ last.result = "db_error"
    /\ last.raised = "audit"
    /\ Cardinality(DOMAIN items) = 2
    /\ \A i \in DOMAIN items : items[i].disposal_method = NULL
    /\ Len(audit_log) = 2

\* C11: on an existing item, select_method called twice in a row with the
\* same method and note leaves every item, the one selected for included
\* (method, cost, scores, benefit, net effect, note, status), as the first
\* call left it; the second call only appends one more audit row.
C11_SelectMethodTwiceIsOnce ==
    \A i \in DOMAIN items : \A form \in SelectForms :
        LET h1 == select_method(Committed, i, form)
            d1 == ExecuteAll(Committed, h1.stmts)
            h2 == select_method(d1, i, form)
            d2 == ExecuteAll(d1, h2.stmts)
        IN  h1.result = "ok" =>
              /\ h2.result = "ok"
              /\ d2.items = d1.items
              /\ d2.seq = d1.seq
              /\ Len(d2.audit_log) = Len(d1.audit_log) + 1
              /\ SubSeq(d2.audit_log, 1, Len(d1.audit_log)) = d1.audit_log
              /\ d2.audit_log[Len(d2.audit_log)] =
                   [d1.audit_log[Len(d1.audit_log)] EXCEPT
                      !.id = Len(d2.audit_log)]

\* C11 witness: the same method with a note has just been selected for an
\* item a second time in a row
C11_Witness ==
    /\ last.op = "select_method"
    /\ last.result = "ok"
    /\ Len(audit_log) >= 3
    /\ audit_log[Len(audit_log)].action = "select_method"
    /\ audit_log[Len(audit_log) - 1].action = "select_method"
    /\ audit_log[Len(audit_log)].item_id = last.item_id
    /\ audit_log[Len(audit_log) - 1].item_id = last.item_id
    /\ audit_log[Len(audit_log)].detail = audit_log[Len(audit_log) - 1].detail
    /\ items[last.item_id].mitigation_note = <<"n">>
    /\ items[last.item_id].status = "pending"

\* the row of an item of the given age and quantity in some later state of
\* its life
SomeRow(a, q) ==
    [NewRow(7, <<"r">>, q, a) EXCEPT
       !.disposal_method = "recycle", !.cost = 60 * q, !.status = "executed"]

\* C12: recommend_method returns a method of the catalog for every facility
\* age in 0..100 and quantity in 1..1000000, the same for the same age and
\* quantity whatever else the item holds, by the first rule that matches:
\* age >= 20 production_cut whatever the quantity; otherwise quantity >= 500
\* recycle; otherwise quantity >= 100 aid; otherwise physical.  Quantity 499
\* gives aid, 500 recycle, 99 physical, 100 aid; age 19 leaves the choice to
\* the quantity, age 20 gives production_cut.
C12_RecommendMethodFirstMatch ==
    /\ last.op = "recommend_method" =>
         LET a == req.request.form.facility_age
             q == req.request.form.quantity
             m == last.result
         IN  /\ last.raised = "none"
             /\ m \in {"physical", "recycle", "production_cut", "aid"}
             /\ m = "production_cut" <=> a >= 20
             /\ m = "recycle" <=> (a < 20 /\ q >= 500)
             /\ m = "aid" <=> (a < 20 /\ q >= 100 /\ q < 500)
             /\ m = "physical" <=> (a < 20 /\ q < 100)
             /\ recommend_method(SomeRow(a, q)) = m
    /\ recommend_method([facility_age |-> 5, quantity |-> 499]) = "aid"
    /\ recommend_method([facility_age |-> 5, quantity |-> 500]) = "recycle"
    /\ recommend_method([facility_age |-> 5, quantity |-> 99]) = "physical"
    /\ recommend_method([facility_age |-> 5, quantity |-> 100]) = "aid"
    /\ recommend_method([facility_age |-> 19, quantity |-> 500]) = "recycle"
    /\ recommend_method([facility_age |-> 19, quantity |-> 99]) = "physical"
    /\ recommend_method([facility_age |-> 20, quantity |-> 1]) = "production_cut"
    /\ recommend_method([facility_age |-> 20, quantity |-> MAX_QUANTITY])
         = "production_cut"

\* C12 witness: recommend_method has answered production_cut for an item of
\* age 20 whose quantity alone would have given recycle
C12_Witness ==
    /\ last.op = "recommend_method"
    /\ req.request.form.facility_age = 20
    /\ req.request.form.quantity = 500
    /\ last.result = "production_cut"

\* the catalog as the claim C13 lists it: cost per unit, env_score,
\* risk_score, benefit per unit
ClaimedCatalog ==
    [physical |-> <<100, 3, 2, 30>>, recycle |-> <<60, 1, 1, 90>>,
     production_cut |-> <<20, 1, 2, 140>>, aid |-> <<130, 1, 2, 70>>]

\* C13: calculate_disposal_result(method, quantity) returns, for a method of
\* the catalog, cost = cost per unit * quantity, benefit = benefit per unit *
\* quantity, net_effect = benefit - cost and the env_score and risk_score of
\* the catalog entry; (recycle, 100) gives (6000, 9000, 3000, 1, 1) and
\* (physical, 10) gives (1000, 300, -700, 3, 2).  For a method that is not
\* in the catalog it raises and returns nothing.
C13_CalculateFollowsCatalog ==
    /\ last.op = "calculate_disposal_result" =>
         LET m == req.request.form.method
             q == req.request.form.quantity
         IN  IF m \in DOMAIN ClaimedCatalog
             THEN LET c == ClaimedCatalog[m]
                  IN  /\ last.raised = "none"
                      /\ last.result =
                           [cost |-> c[1] * q, benefit |-> c[4] * q,
                            net_effect |-> c[4] * q - c[1] * q,
                            env_score |-> c[2], risk_score |-> c[3]]
             ELSE /\ last.raised = "KeyError"
                  /\ last.result = NULL
    /\ DOMAIN DISPOSAL_METHODS = DOMAIN ClaimedCatalog
    /\ calculate_disposal_result("recycle", 100) =
         [cost |-> 6000, benefit |-> 9000, net_effect |-> 3000,
          env_score |-> 1, risk_score |-> 1]
    /\ calculate_disposal_result("physical", 10) =
         [cost |-> 1000, benefit |-> 300, net_effect |-> -700,
          env_score |-> 3, risk_score |-> 2]

\* C13 witness: calculate_disposal_result has returned the result of
\* (recycle, 100)
C13_Witness ==
    /\ last.op = "calculate_disposal_result"
    /\ req.request.form.method = "recycle"
    /\ req.request.form.quantity = 100
    /\ last.result.cost = 6000
    /\ last.result.net_effect = 3000

\* The scenario of C14 on item i of the database d, which add_item has just
\* created with quantity 100 and facility age 5: apply_recommendation,
\* execute_disposal (refused), approve, execute_disposal.
ScenarioHolds(d, i) ==
    LET h1 == apply_recommendation(d, i)
        d1 == ExecuteAll(d, h1.stmts)
        h2 == execute_disposal(d1, i)
        d2 == ExecuteAll(d1, h2.stmts)
        h3 == approve(d2, i)
        d3 == ExecuteAll(d2, h3.stmts)
        h4 == execute_disposal(d3, i)
        d4 == ExecuteAll(d3, h4.stmts)
    IN  /\ h1.result = "ok"
        /\ d1.items[i].disposal_method = "aid"
        /\ d1.items[i].cost = 13000
        /\ d1.items[i].expected_benefit = 7000
        /\ d1.items[i].net_effect = -6000
        /\ d1.items[i].status = "pending"
        /\ h2.result = "not_approved"
        /\ d2 = d1
        /\ d2.items[i].risk_score = 2
        /\ d2.items[i].mitigation_note = <<>>
        /\ h3.result = "ok"
        /\ d3.items[i] = [d2.items[i] EXCEPT !.status = "approved"]
        /\ h4.result = "ok"
        /\ d4.items[i] = [d2.items[i] EXCEPT !.status = "executed"]
        /\ [k \in 1..Len(d4.audit_log) - Len(d.audit_log) |->
               d4.audit_log[Len(d.audit_log) + k].action]
             = <<"apply_recommendation", "approve", "execute">>

\* C14: from the empty store, add(DDR4, 100, 5) then apply_recommendation
\* gives method aid, cost 13000, expected benefit 7000, net effect -6000,
\* status pending; execute_disposal then fails and the status stays pending;
\* approve succeeds without a mitigation note (risk score 2); after it
\* execute_disposal succeeds and the status is executed.  The same holds of
\* every item of a reachable store that is as add_item created it with
\* quantity 100 and facility age 5.
C14_ScenarioAddRecommendApproveExecute ==
    /\ LET h0 == add_item(EmptyDb,
                          [name |-> <<"D", "D", "R", "4">>,
                           quantity |-> IntText(100),
                           facility_age |-> IntText(5)])
           d0 == ExecuteAll(EmptyDb, h0.stmts)
       IN  /\ h0.result = "ok"
           /\ d0.items = (1 :> NewRow(1, <<"D", "D", "R", "4">>, 100, 5))
           /\ ScenarioHolds(d0, 1)
    /\ \A i \in DOMAIN items :
          items[i] = NewRow(i, items[i].name, 100, 5) =>
             ScenarioHolds(Committed, i)

\* C14 witness: the store holds one item, added with quantity 100 and age 5
\* and executed after apply_recommendation and approve, with nothing else in
\* the audit log
C14_Witness ==
    /\ last.op = "execute_disposal"
    /\ last.result = "ok"
    /\ [k \in 1..Len(audit_log) |-> audit_log[k].action]
         = <<"add", "apply_recommendation", "approve", "execute">>
    /\ \A k \in 1..Len(audit_log) : audit_log[k].item_id = 1
    /\ audit_log[1].detail = <<100, 5>>
    /\ items[1].status = "executed"
    /\ items[1].disposal_method = "aid"
    /\ items[1].cost = 13000
    /\ items[1].mitigation_note = <<>>

\* C15: the audit log is append-only.  Every step keeps every audit row, with
\* its id, item_id, item_name, action and detail, and adds rows only at the
\* end; the ids increase strictly along the log; deleting an item removes no
\* row, so the rows of a deleted item remain.
C15_AuditLogAppendOnly ==
    /\ [](\A k, m \in 1..Len(audit_log) :
             k < m => audit_log[k].id < audit_log[m].id)
    /\ [][/\ Len(audit_log') >= Len(audit_log)
          /\ SubSeq(audit_log', 1, Len(audit_log)) = audit_log
          /\ \A i \in DOMAIN items \ DOMAIN items' :
                {k \in 1..Len(audit_log) : audit_log[k].item_id = i}
                   \subseteq
                {k \in 1..Len(audit_log') : audit_log'[k].item_id = i}]_vars

\* C15 witness: an item with three audit rows has just been deleted, and its
\* rows are in the log, followed by the row of the deletion
C15_Witness ==
    /\ last.op = "delete_item"
    /\ last.result = "ok"
    /\ last.item_id \notin DOMAIN items
    /\ Len(audit_log) = 4
    /\ \A k \in 1..4 : audit_log[k].item_id = last.item_id /\ audit_log[k].id = k
    /\ audit_log[1].action = "add"
    /\ audit_log[4].action = "delete"

\* Forms of POST /add at the limits, each with the name, quantity and
\* facility age the claim C16 gives the new item.
AddCases ==
    { [form |-> [name |-> <<" ">> \o Rep(MAX_NAME_LENGTH, "x") \o <<"\n">>,
                 quantity |-> IntText(2000000), facility_age |-> NotIntText],
       name |-> Rep(MAX_NAME_LENGTH, "x"), quantity |-> 1000000,
       facility_age |-> 0],
      [form |-> [name |-> <<"T">>, quantity |-> IntText(0),
                 facility_age |-> IntText(-1)],
       name |-> <<"T">>, quantity |-> 1, facility_age |-> 0],
      [form |-> [name |-> <<"T", " ", "t">>, quantity |-> IntText(-5),
                 facility_age |-> IntText(100)],
       name |-> <<"T", " ", "t">>, quantity |-> 1, facility_age |-> 100],
      [form |-> [name |-> <<"\t", "T">>, quantity |-> IntText(1000000),
                 facility_age |-> IntText(101)],
       name |-> <<"T">>, quantity |-> 1000000, facility_age |-> 100],
      [form |-> [name |-> <<"T">>, quantity |-> IntText(1000001),
                 facility_age |-> IntText(0)],
       name |-> <<"T">>, quantity |-> 1000000, facility_age |-> 0],
      [form |-> [name |-> <<"T">>, quantity |-> NotIntText,
                 facility_age |-> IntText(99)],
       name |-> <<"T">>, quantity |-> 1, facility_age |-> 99],
      [form |-> [name |-> <<"T">>, quantity |-> IntText(999999),
                 facility_age |-> IntText(1)],
       name |-> <<"T">>, quantity |-> 999999, facility_age |-> 1] }

\* an item as the claim C16 says add_item creates it
FreshItem(id, name, quantity, facility_age) ==
    [id |-> id, name |-> name, quantity |-> quantity,
     facility_age |-> facility_age, disposal_method |-> NULL, cost |-> 0,
     env_score |-> 0, risk_score |-> 0, expected_benefit |-> 0,
     net_effect |-> 0, mitigation_note |-> <<>>, status |-> "pending"]

\* C16: add_item with a name that, trimmed, is not empty and has at most 200
\* characters creates exactly one new item: status pending, no method, the
\* derived fields 0, an empty note, the quantity clamped into 1..1000000 and
\* the facility age into 0..100 (text that is no integer gives quantity 1,
\* age 0).  So in every reachable state every item has a status among
\* pending, approved, rejected, executed, 1 <= quantity <= 1000000,
\* 0 <= facility_age <= 100, a name of 1 to 200 characters and a note of at
\* most 500 characters.
C16_AddItemCreatesValidItem ==
    /\ [](\A i \in DOMAIN items :
            /\ items[i].status \in {"pending", "approved", "rejected", "executed"}
            /\ items[i].quantity >= 1
            /\ items[i].quantity <= 1000000
            /\ items[i].facility_age >= 0
            /\ items[i].facility_age <= 100
            /\ Len(items[i].name) >= 1
            /\ Len(items[i].name) <= 200
            /\ Len(items[i].mitigation_note) <= 500)
    /\ [](\A c \in AddCases :
            LET h == add_item(Committed, c.form)
                e == ExecuteAll(Committed, h.stmts)
                id == seq + 1
            IN  /\ h.result = "ok"
                /\ id \notin DOMAIN items
                /\ DOMAIN e.items = DOMAIN items \cup {id}
                /\ e.items[id] = FreshItem(id, c.name, c.quantity, c.facility_age)
                /\ \A i \in DOMAIN items : e.items[i] = items[i])
    /\ [][(last'.op = "add_item" /\ last'.result = "ok") =>
            /\ DOMAIN items' = DOMAIN items \cup {seq'}
            /\ seq' \notin DOMAIN items
            /\ \A i \in DOMAIN items : items'[i] = items[i]
            /\ LET it == items'[seq']
               IN  it = FreshItem(seq', it.name, it.quantity, it.facility_age)]_vars

\* C16 witness: add_item has just created a second item from a form whose
\* quantity was no integer and whose facility age was 150
C16_Witness ==
    /\ last.op = "add_item"
    /\ last.result = "ok"
    /\ Cardinality(DOMAIN items) = 2
    /\ items[seq].quantity = 1
    /\ items[seq].facility_age = MAX_FACILITY_AGE
    /\ items[seq].status = "pending"
    /\ items[seq].disposal_method = NULL
    /\ \E i \in DOMAIN items : items[i].status = "approved"

\* what an approval is given for: the method of an item, its derived fields
\* and its mitigation note
Approved(it) ==
    <<it.disposal_method, it.cost, it.env_score, it.risk_score,
      it.expected_benefit, it.net_effect, it.mitigation_note>>

\* the position of the last audit row of the action on item i (0: none)
LastAuditRow(i, action) ==
    IF AuditRows(i, action) = {} THEN 0
    ELSE CHOOSE k \in AuditRows(i, action) :
            \A m \in AuditRows(i, action) : m <= k

\* C17: select_method and apply_recommendation, when they succeed, leave the
\* item pending whatever its status was; so an approved or executed item has
\* the method, derived fields and note it had when approve last succeeded on
\* it: the status enters approved/executed only by approve, which changes
\* none of them, no step changes them while the status stays there, and no
\* select_method, apply_recommendation or reset follows the last approve in
\* the audit log, whose row records the method the item still has.
C17_ApprovalDoesNotSurviveMethodChange ==
    /\ [](\A i \in DOMAIN items :
            /\ \A form \in SelectForms :
                  LET h == select_method(Committed, i, form)
                  IN  h.result = "ok" =>
                        ExecuteAll(Committed, h.stmts).items[i].status = "pending"
            /\ LET h == apply_recommendation(Committed, i)
               IN  /\ h.result = "ok"
                   /\ ExecuteAll(Committed, h.stmts).items[i].status = "pending"
            /\ items[i].status \in {"approved", "executed"} =>
                  LET k == LastAuditRow(i, "approve")
                  IN  /\ k > 0
                      /\ audit_log[k].detail = <<items[i].disposal_method>>
                      /\ LastAuditRow(i, "select_method") < k
                      /\ LastAuditRow(i, "apply_recommendation") < k
                      /\ LastAuditRow(i, "reset") < k)
    /\ [][/\ \A i \in DOMAIN items' \ DOMAIN items :
                items'[i].status = "pending"
          /\ \A i \in DOMAIN items \cap DOMAIN items' :
                /\ (last'.op \in {"select_method", "apply_recommendation"}
                    /\ last'.item_id = i) => items'[i].status = "pending"
                /\ items'[i].status \in {"approved", "executed"} =>
                      /\ Approved(items'[i]) = Approved(items[i])
                      /\ items[i].status \notin {"approved", "executed"} =>
                            /\ last'.op = "approve"
                            /\ last'.item_id = i]_vars

\* C17 witness: select_method has just taken an approved item back to
\* pending, with another method than the approved one
C17_Witness ==
    /\ last.op = "select_method"
    /\ last.result = "ok"
    /\ Len(audit_log) >= 3
    /\ audit_log[Len(audit_log) - 1].action = "approve"
    /\ audit_log[Len(audit_log) - 1].item_id = last.item_id
    /\ audit_log[Len(audit_log) - 1].detail # <<items[last.item_id].disposal_method>>
    /\ items[last.item_id].status = "pending"

\* C19: executed is a final status: once an item is executed, no request
\* but its deletion changes its status or any other of its fields.
C19_ExecutedIsFinal ==
    [][\A i \in DOMAIN items \cap DOMAIN items' :
          items[i].status = "executed" => items'[i] = items[i]]_vars

\* C20: execute_disposal succeeds at most once for an item: the audit log
\* never holds two execute rows of the same item_id.
C20_ExecutedAtMostOnce ==
    \A i \in 1..seq : Cardinality(AuditRows(i, "execute")) <= 1

\* the thread that is not t
Other(t) == CHOOSE u \in Threads : u # t

\* C18: two requests on the same item served concurrently, the SELECT, the
\* checks and the write of each being steps of their own, leave the store
\* that serving them one after the other, in one of the two orders, leaves.
\* An item does not end executed when the other request committed a
\* select_method, reject or reset on it after execute_disposal read it, and
\* does not end approved with another method than the one approve read.
C18_ConcurrentRequestsSerialize ==
    (\A t \in Threads : req[t].pc = "done") =>
       /\ Committed \in
            {Sequential(ConcStore, <<req[1].request, req[2].request>>),
             Sequential(ConcStore, <<req[2].request, req[1].request>>)}
       /\ \A t \in Threads :
            LET i == req[t].request.item_id
                u == Other(t)
            IN  /\ (/\ req[t].request.op = "execute_disposal"
                    /\ last[t].result = "ok"
                    /\ req[u].request.op \in {"select_method", "reject",
                                               "reset_item"}
                    /\ last[u].result = "ok"
                    /\ Len(conn[u].audit_log) = Len(conn[t].audit_log))
                      => items[i].status # "executed"
                /\ (/\ req[t].request.op = "approve"
                    /\ last[t].result = "ok"
                    /\ i \in DOMAIN items
                    /\ items[i].status = "approved")
                      => items[i].disposal_method
                           = conn[t].items[i].disposal_method

\* the mitigation notes a row can hold when approve reads it
Notes == {<<>>, <<" ">>, <<"n">>, Rep(MAX_NOTE_LENGTH, "X")}

\* the database d with the mitigation_note of item i replaced
WithNote(d, i, note) == [d EXCEPT !.items[i].mitigation_note = note]

\* C21: every item has risk_score 0, 1 or 2, so approve never takes its
\* high-risk branch: on an existing item it succeeds exactly when the item
\* has a disposal_method, whatever the mitigation note holds, and no response
\* asks for a mitigation note.
C21_HighRiskBranchUnreachable ==
    /\ last.result # "mitigation_required"
    /\ \A i \in DOMAIN items :
         /\ items[i].risk_score \in {0, 1, 2}
         /\ approve(Committed, i).result \in {"ok", "method_required"}
         /\ (approve(Committed, i).result = "ok")
               <=> (items[i].disposal_method # NULL)
         /\ \A note \in Notes :
               approve(WithNote(Committed, i, note), i).result
                  = approve(Committed, i).result

\* C21 witness: approve has just succeeded on an item of risk score 2 whose
\* mitigation note is blank
C21_Witness ==
    /\ last.op = "approve"
    /\ last.result = "ok"
    /\ last.item_id \in DOMAIN items
    /\ items[last.item_id].status = "approved"
    /\ items[last.item_id].risk_score = 2
    /\ Strip(items[last.item_id].mitigation_note) = <<>>

\* the database after the handler's statements
After(d, h) == ExecuteAll(d, h.stmts)

\* C22: auto_plan leaves every item that has a disposal_method as it is,
\* status included; every item it updates becomes pending and keeps its
\* mitigation_note, whatever the note holds; after it no item is without
\* disposal_method, so an auto_plan that follows at once updates 0 items and
\* appends no audit row.
C22_AutoPlanFrameAndSecondRun ==
    /\ [](LET h == auto_plan(Committed)
              e == After(Committed, h)
              h2 == auto_plan(e)
          IN  /\ DOMAIN e.items = DOMAIN items
              /\ \A i \in DOMAIN items :
                    IF items[i].disposal_method # NULL
                    THEN e.items[i] = items[i]
                    ELSE /\ e.items[i].status = "pending"
                         /\ e.items[i].mitigation_note = items[i].mitigation_note
                         /\ \A note \in Notes :
                               LET w == WithNote(Committed, i, note)
                               IN  After(w, auto_plan(w)).items[i].mitigation_note
                                     = note
              /\ \A i \in DOMAIN e.items : e.items[i].disposal_method # NULL
              /\ h2.result = "no_target"
              /\ h2.updated = 0
              /\ After(e, h2) = e)
    /\ [][last'.op = "auto_plan" =>
            /\ \A i \in DOMAIN items :
                  IF items[i].disposal_method # NULL
                  THEN items'[i] = items[i]
                  ELSE /\ items'[i].status = "pending"
                       /\ items'[i].mitigation_note = items[i].mitigation_note
            /\ \A i \in DOMAIN items' : items'[i].disposal_method # NULL
            /\ auto_plan(Committed').updated = 0
            /\ After(Committed', auto_plan(Committed')) = Committed']_vars

\* C22 witness: auto_plan has just planned one item and left alone another
\* whose method, selected by select_method, is not the recommended one
C22_Witness ==
    /\ last.op = "auto_plan"
    /\ last.updated = 1
    /\ audit_log[Len(audit_log)].action = "bulk_apply"
    /\ \E i \in DOMAIN items :
          /\ items[i].disposal_method # NULL
          /\ items[i].disposal_method # recommend_method(items[i])
    /\ \E i \in DOMAIN items :
          /\ items[i].disposal_method = recommend_method(items[i])
          /\ AuditRows(i, "select_method") = {}
          /\ AuditRows(i, "apply_recommendation") = {}

\* the handlers of the routes on one item that keep the item, and the
\* requests they serve on item i
SingleItemOps ==
    {"select_method", "apply_recommendation", "approve", "reject",
     "reset_item", "execute_disposal"}
SingleItemRequests(i) ==
    {Request("select_method", i, form) : form \in SelectForms}
    \cup {Request(op, i, NoForm) : op \in SingleItemOps \ {"select_method"}}

\* the columns of items that no UPDATE of the program has in its SET list
FixedColumns == {"id", "name", "quantity", "facility_age", "created_at"}

\* the note of the form as it was typed
AsSubmitted(note) == note

\* the frame of request r on an item of database d: the other items and the
\* fixed columns of the item are as before and every UPDATE is one of the
\* item that sets none of the fixed columns; approve, reject and
\* execute_disposal set nothing but status; apply_recommendation keeps the
\* note; a successful select_method stores Stored(the note of its form)
SingleItemFrame(d, r, Stored(_)) ==
    \A h \in {Handle(d, r)} :
      \A e \in {After(d, h)} :
        LET i == r.item_id
        IN  /\ DOMAIN e.items = DOMAIN d.items
            /\ \A j \in DOMAIN d.items \ {i} : e.items[j] = d.items[j]
            /\ \A c \in FixedColumns \cap DOMAIN d.items[i] :
                  e.items[i][c] = d.items[i][c]
            /\ \A k \in 1..Len(h.stmts) :
                  h.stmts[k].kind = "update" =>
                     /\ h.stmts[k].id = i
                     /\ DOMAIN h.stmts[k].set \cap FixedColumns = {}
                     /\ r.op \in {"approve", "reject", "execute_disposal"} =>
                           DOMAIN h.stmts[k].set = {"status"}
            /\ r.op \in {"approve", "reject", "execute_disposal"} =>
                  e.items[i] = [d.items[i] EXCEPT !.status = e.items[i].status]
            /\ r.op = "apply_recommendation" =>
                  /\ h.result = "ok"
                  /\ e.items[i].mitigation_note = d.items[i].mitigation_note
            /\ (r.op = "select_method" /\ h.result = "ok") =>
                  e.items[i].mitigation_note = Stored(r.form.mitigation_note)

\* a step of one of the six handlers on item i changed nothing of the other
\* items, none of the fixed columns of i and, for approve, reject and
\* execute_disposal, nothing but the status of i; apply_recommendation kept
\* the note
SingleItemStep ==
    last'.op \in SingleItemOps =>
       LET i == last'.item_id
       IN  /\ i \in DOMAIN items
           /\ DOMAIN items' = DOMAIN items
           /\ \A j \in DOMAIN items \ {i} : items'[j] = items[j]
           /\ \A c \in FixedColumns \cap DOMAIN items[i] :
                 items'[i][c] = items[i][c]
           /\ last'.op \in {"approve", "reject", "execute_disposal"} =>
                 items'[i] = [items[i] EXCEPT !.status = items'[i].status]
           /\ last'.op = "apply_recommendation" =>
                 items'[i].mitigation_note = items[i].mitigation_note

\* C23 as claimed: select_method, apply_recommendation, approve, reject,
\* reset_item and execute_disposal on item i change no other item and never
\* the id, name, quantity, facility_age or created_at of i; approve, reject
\* and execute_disposal change only the status of i; apply_recommendation
\* keeps the mitigation_note of i; select_method replaces it with the
\* submitted note.
C23_FrameWithSubmittedNote ==
    /\ [](\A i \in DOMAIN items :
            \A r \in SingleItemRequests(i) :
               SingleItemFrame(Committed, r, AsSubmitted))
    /\ [][SingleItemStep]_vars

\* C23 amended: the same frame, select_method replacing the mitigation_note
\* with the submitted note stripped of its leading and trailing whitespace.
C23_FrameWithStrippedNote ==
    /\ [](\A i \in DOMAIN items :
            \A r \in SingleItemRequests(i) :
               SingleItemFrame(Committed, r, Strip))
    /\ [][SingleItemStep]_vars

\* C23 witness: apply_recommendation has just changed the method of an item
\* and kept the note that select_method stored, stripped, before it
C23_Witness ==
    /\ last.op = "apply_recommendation"
    /\ last.item_id \in DOMAIN items
    /\ audit_log[Len(audit_log) - 1].action = "select_method"
    /\ audit_log[Len(audit_log) - 1].item_id = last.item_id
    /\ audit_log[Len(audit_log) - 1].detail[1] = DISPOSAL_METHODS.physical.label
    /\ items[last.item_id].disposal_method # "physical"
    /\ items[last.item_id].mitigation_note = <<"n">>

\* the positions of the audit rows of item_id i, and the first of them
RowsOfItem(i) == {k \in 1..Len(audit_log) : audit_log[k].item_id = i}
FirstRowOfItem(i) ==
    CHOOSE k \in RowsOfItem(i) : \A m \in RowsOfItem(i) : k <= m

\* C24: delete_item succeeds on every item, whatever its status, and removes
\* that item and no other; an id once given is not given again, to an item
\* added after the deletion either; so the audit rows of one item_id are the
\* rows of one item: the first is its one add row and all carry its name.
C24_DeleteAndIdsNeverReused ==
    /\ [](/\ \A i \in DOMAIN items :
               LET h == delete_item(Committed, i)
                   e == After(Committed, h)
               IN  /\ h.result = "ok"
                   /\ DOMAIN e.items = DOMAIN items \ {i}
                   /\ \A j \in DOMAIN e.items : e.items[j] = items[j]
                   /\ \A form \in AddForms :
                         LET a == add_item(e, form)
                         IN  a.result = "ok" =>
                               /\ DOMAIN After(e, a).items \ DOMAIN e.items
                                    = {seq + 1}
                               /\ RowsOfItem(seq + 1) = {}
          /\ \A i \in DOMAIN items : i <= seq /\ items[i].id = i
          /\ \A k \in 1..Len(audit_log) :
               LET i == audit_log[k].item_id
               IN  i # NoId =>
                     /\ i <= seq
                     /\ audit_log[FirstRowOfItem(i)].action = "add"
                     /\ Cardinality(AuditRows(i, "add")) = 1
                     /\ audit_log[k].item_name
                          = audit_log[FirstRowOfItem(i)].item_name
                     /\ i \in DOMAIN items =>
                          items[i].name = audit_log[k].item_name)
    /\ [][/\ \A i \in DOMAIN items' \ DOMAIN items :
                /\ i > seq
                /\ RowsOfItem(i) = {}
                /\ last'.op = "add_item"
          /\ last'.op = "delete_item" =>
                /\ last'.item_id \in DOMAIN items
                /\ DOMAIN items' = DOMAIN items \ {last'.item_id}
                /\ \A j \in DOMAIN items' : items'[j] = items[j]]_vars

\* C24 witness: an item has just been added after the deletion of item 1 and
\* has another id
C24_Witness ==
    /\ last.op = "add_item"
    /\ 1 \notin DOMAIN items
    /\ AuditRows(1, "delete") # {}
    /\ DOMAIN items = {2}
    /\ audit_log[Len(audit_log)].item_id = 2
    /\ audit_log[Len(audit_log)].action = "add"

====
